---- MODULE Spec2Model ----
\* Model of cmd/admin-prometheus-generate.go ("mc admin prometheus generate"):
\* the two package-level configuration documents, the command handler
\* mainAdminPrometheusGenerate / generatePrometheusConfig as a sequence of
\* steps, and the two renderings of the document.
EXTENDS Integers, Sequences, FiniteSets, TLC

\* ------------------------------------------------------------------------
\* Bounds
\* ------------------------------------------------------------------------

\* Number of times the command handler is entered in one process.
MaxInvocations == 3

\* ------------------------------------------------------------------------
\* Constants of the program
\* ------------------------------------------------------------------------

defaultJobName == "minio-job"

legacyMetricsPath == "/minio/prometheus/metrics"

defaultMetricsPath == "/minio/v2/metrics/cluster"

\* Variant of defaultPrometheusJWTExpiry: the factor 24 is missing.
expiryWithoutHoursPerDay == 100 * 365

\* time.Duration constant, here counted in hours (the code: 100*365*24*time.Hour).
defaultPrometheusJWTExpiry == 100 * 365 * 24

\* The literal "2021-01-30T00-20-58Z" of the version comparison, as the
\* sequence of its characters.
cutoverVersion ==
    << "2","0","2","1","-","0","1","-","3","0","T",
       "0","0","-","2","0","-","5","8","Z" >>

\* ------------------------------------------------------------------------
\* Strings as byte sequences, and Go's string comparison
\* ------------------------------------------------------------------------

\* ASCII code of the characters that occur in the version strings used.
Byte(c) ==
    CASE c = "-" -> 45 [] c = "." -> 46
      [] c = "0" -> 48 [] c = "1" -> 49 [] c = "2" -> 50 [] c = "3" -> 51
      [] c = "4" -> 52 [] c = "5" -> 53 [] c = "6" -> 54 [] c = "7" -> 55
      [] c = "8" -> 56 [] c = "9" -> 57
      [] c = "D" -> 68 [] c = "E" -> 69 [] c = "T" -> 84 [] c = "V" -> 86
      [] c = "Z" -> 90

Min(a, b) == IF a < b THEN a ELSE b

\* Go's a < b on strings: bytewise comparison of the common prefix, the
\* shorter string being smaller when one is a prefix of the other.
RECURSIVE cmpFrom(_, _, _)
cmpFrom(a, b, i) ==
    IF i > Min(Len(a), Len(b))
    THEN (IF Len(a) < Len(b) THEN -1 ELSE IF Len(a) > Len(b) THEN 1 ELSE 0)
    ELSE IF Byte(a[i]) < Byte(b[i]) THEN -1
    ELSE IF Byte(a[i]) > Byte(b[i]) THEN 1
    ELSE cmpFrom(a, b, i + 1)

StrLess(a, b) == cmpFrom(a, b, 1) < 0

\* ------------------------------------------------------------------------
\* time.Time and the expiry of the credential
\* ------------------------------------------------------------------------
\* A point in time is its number of whole seconds since the epoch, written in
\* two limbs [M, u] standing for M * 10^6 + u with 0 <= u < 10^6 (int64 in the
\* code; the values here exceed 2^31 and stay far below 2^63, so no limb
\* overflows and no wrap-around is possible).  Sub-second parts are dropped
\* by Unix() and are not carried.

\* Number of seconds of a duration of d hours, in limbs: d * 3600.
HoursToSeconds(d) ==
    [M |-> (d * 36) \div 10000, u |-> ((d * 36) % 10000) * 100]

\* Time.Add for a duration given in seconds (limbs).
TimeAdd(t, d) ==
    [M |-> t.M + d.M + ((t.u + d.u) \div 1000000), u |-> (t.u + d.u) % 1000000]

\* Time.Unix(): the seconds since the epoch.
TimeUnix(t) == [M |-> t.M, u |-> t.u]

\* Decimal text of a number of seconds held in limbs.
Pad6(n) ==
    (IF n < 10 THEN "00000" ELSE IF n < 100 THEN "0000" ELSE IF n < 1000 THEN "000"
     ELSE IF n < 10000 THEN "00" ELSE IF n < 100000 THEN "0" ELSE "") \o ToString(n)

SecondsText(x) == IF x.M = 0 THEN ToString(x.u) ELSE ToString(x.M) \o Pad6(x.u)

\* ------------------------------------------------------------------------
\* The credential
\* ------------------------------------------------------------------------

\* jwtgo.NewWithClaims(jwtgo.SigningMethodHS512, jwtgo.StandardClaims{...})
\* as built by generatePrometheusConfig for the time `now` and access key.
newJWT(now, accessKey) ==
    [ Method |-> "HS512",
      Claims |-> [ ExpiresAt |-> TimeUnix(TimeAdd(now, HoursToSeconds(defaultPrometheusJWTExpiry))),
                   Subject   |-> accessKey,
                   Issuer    |-> "prometheus" ] ]

\* jwt.SignedString(key): header "." payload "." signature.  The signature
\* is kept symbolic: it names the algorithm and the key it was made with.
SignedString(jwt, key) ==
    "{alg:" \o jwt.Method \o "}"
    \o ".{exp:" \o SecondsText(jwt.Claims.ExpiresAt)
    \o ",iss:" \o jwt.Claims.Issuer
    \o ",sub:" \o jwt.Claims.Subject \o "}"
    \o "." \o jwt.Method \o "(" \o key \o ")"

\* ------------------------------------------------------------------------
\* The configuration documents
\* ------------------------------------------------------------------------

\* var defaultConfig = PrometheusConfig{...}
defaultConfigInit ==
    [ ScrapeConfigs |->
        << [ JobName       |-> defaultJobName,
             BearerToken   |-> "",
             MetricsPath   |-> defaultMetricsPath,
             Scheme        |-> "",
             StaticConfigs |-> << [ Targets |-> << "" >> ] >> ] >> ]

\* var legacyConfig = PrometheusConfig{...}
legacyConfigInit ==
    [ ScrapeConfigs |->
        << [ JobName       |-> defaultJobName,
             BearerToken   |-> "",
             MetricsPath   |-> legacyMetricsPath,
             Scheme        |-> "",
             StaticConfigs |-> << [ Targets |-> << "" >> ] >> ] >> ]

\* Variant of fillConfig: the host is appended to the targets.
fillConfigAppend(c, tok, url) ==
    [ c EXCEPT !.ScrapeConfigs[1].BearerToken = tok,
               !.ScrapeConfigs[1].Scheme = url.Scheme,
               !.ScrapeConfigs[1].StaticConfigs[1].Targets = Append(@, url.Host) ]

\* Variant of fillConfig: a scheme already set is kept.
fillConfigSchemeOnce(c, tok, url) ==
    [ c EXCEPT !.ScrapeConfigs[1].BearerToken = tok,
               !.ScrapeConfigs[1].Scheme = IF @ = "" THEN url.Scheme ELSE @,
               !.ScrapeConfigs[1].StaticConfigs[1].Targets[1] = url.Host ]

\* The three assignments that fill a document:
\*   c.ScrapeConfigs[0].BearerToken = token
\*   c.ScrapeConfigs[0].Scheme = u.Scheme
\*   c.ScrapeConfigs[0].StaticConfigs[0].Targets[0] = u.Host
fillConfig(c, tok, url) ==
    [ c EXCEPT !.ScrapeConfigs[1].BearerToken = tok,
               !.ScrapeConfigs[1].Scheme = url.Scheme,
               !.ScrapeConfigs[1].StaticConfigs[1].Targets[1] = url.Host ]

\* ------------------------------------------------------------------------
\* Renderings.  A rendered text is the sequence of its leaves, each leaf a
\* pair <<path of keys and indexes, value>>, in the order they are written.
\* ------------------------------------------------------------------------

RECURSIVE Flatten(_)
Flatten(ss) == IF ss = << >> THEN << >> ELSE Head(ss) \o Flatten(Tail(ss))

Idx(i) == "[" \o ToString(i - 1) \o "]"

\* Leaves of a list of strings under the path p.
StringsLeaves(p, strs) == [ k \in 1..Len(strs) |-> << p \o Idx(k), strs[k] >> ]

\* func (t StatConfig) JSON(): json.MarshalIndent(t.Targets, "", " ").
StatConfigJSON(t) == StringsLeaves("", t.Targets)

\* func (t StatConfig) String(): yaml.Marshal(t); the field Targets carries
\* the tag yaml:",flow" and so keeps the default key "targets".
StatConfigString(t) == StringsLeaves("targets", t.Targets)

\* json.MarshalIndent of one ScrapeConfig: every field, under its json tag.
ScrapeConfigJSON(sc) ==
    << << "jobName", sc.JobName >>,
       << "bearerToken", sc.BearerToken >>,
       << "metricsPath", sc.MetricsPath >>,
       << "scheme", sc.Scheme >> >>
    \o Flatten([ j \in 1..Len(sc.StaticConfigs) |->
                   StringsLeaves("staticConfigs" \o Idx(j) \o ".targets",
                                 sc.StaticConfigs[j].Targets) ])

\* Variant of PrometheusConfigJSON: only the target list is written.
PrometheusConfigJSONTargets(c) == StatConfigJSON(c.ScrapeConfigs[1].StaticConfigs[1])

\* func (c PrometheusConfig) JSON(): json.MarshalIndent(c.ScrapeConfigs[0], "", " ").
PrometheusConfigJSON(c) == ScrapeConfigJSON(c.ScrapeConfigs[1])

\* yaml.Marshal of one ScrapeConfig under the path p: metrics_path, scheme
\* and static_configs are omitempty.
ScrapeConfigYAML(p, sc) ==
    << << p \o ".job_name", sc.JobName >>,
       << p \o ".bearer_token", sc.BearerToken >> >>
    \o (IF sc.MetricsPath = "" THEN << >> ELSE << << p \o ".metrics_path", sc.MetricsPath >> >>)
    \o (IF sc.Scheme = "" THEN << >> ELSE << << p \o ".scheme", sc.Scheme >> >>)
    \o Flatten([ j \in 1..Len(sc.StaticConfigs) |->
                   StringsLeaves(p \o ".static_configs" \o Idx(j) \o ".targets",
                                 sc.StaticConfigs[j].Targets) ])

\* func (c PrometheusConfig) String(): yaml.Marshal(c), whole document.
PrometheusConfigString(c) ==
    Flatten([ i \in 1..Len(c.ScrapeConfigs) |->
                ScrapeConfigYAML("scrape_configs" \o Idx(i), c.ScrapeConfigs[i]) ])

\* printMsg(msg): msg.JSON() in JSON output mode, msg.String() otherwise.
printMsg(c, jsonMode) ==
    IF jsonMode THEN PrometheusConfigJSON(c) ELSE PrometheusConfigString(c)

\* ------------------------------------------------------------------------
\* Collaborators: alias store, URL parser, clock, remote service
\* ------------------------------------------------------------------------

\* The absent host configuration (mustGetHostConfig returning nil).
NilHost == [ nil |-> TRUE, URL |-> "", AccessKey |-> "", SecretKey |-> "" ]

\* Argument lists the command is started with.
ArgLists ==
    { << >>, << "play" >>, << "play/" >>, << "local" >>, << "broken" >>,
      << "nosuch" >>, << "1bad" >>, << "play", "local" >> }

\* cleanAlias: a trailing separator of the alias argument is dropped.
cleanAlias(s) == IF s = "play/" THEN "play" ELSE s

\* isValidAlias: an alias starts with a letter.
isValidAlias(a) == a \in { "play", "local", "broken", "nosuch" }

\* mustGetHostConfig over the configured aliases; "local" has an empty
\* secret key, the URL of "broken" does not parse.
mustGetHostConfig(a) ==
    CASE a = "play"   -> [ nil |-> FALSE, URL |-> "https://play.min.io:9000",
                           AccessKey |-> "PLAYKEY", SecretKey |-> "playsecret" ]
      [] a = "local"  -> [ nil |-> FALSE, URL |-> "http://localhost:9000",
                           AccessKey |-> "minioadmin", SecretKey |-> "" ]
      [] a = "broken" -> [ nil |-> FALSE, URL |-> "http://[::1",
                           AccessKey |-> "PLAYKEY", SecretKey |-> "playsecret" ]
      [] OTHER        -> NilHost

\* url.Parse on the URLs of the alias store.
urlParse(raw) ==
    CASE raw = "https://play.min.io:9000" ->
             [ err |-> FALSE, Scheme |-> "https", Host |-> "play.min.io:9000" ]
      [] raw = "http://localhost:9000" ->
             [ err |-> FALSE, Scheme |-> "http", Host |-> "localhost:9000" ]
      [] OTHER ->
             [ err |-> TRUE, Scheme |-> "", Host |-> "" ]

\* Values UTCNow() returns (seconds since the epoch, in limbs); adding the
\* validity carries into the upper limb for the first and not for the second.
Clock == { [ M |-> 1793, u |-> 750000 ], [ M |-> 1793, u |-> 400000 ] }

\* Version strings a server may report.
V2020 == << "2","0","2","0","-","0","1","-","0","1","T","0","0","-","0","0","-","0","0","Z" >>
VJustBefore == << "2","0","2","1","-","0","1","-","3","0","T","0","0","-","2","0","-","5","7","Z" >>
VPrefix == << "2","0","2","1","-","0","1","-","3","0","T","0","0","-","2","0","-","5","8" >>
V2022 == << "2","0","2","2","-","0","1","-","0","1","T","0","0","-","0","0","-","0","0","Z" >>
VDev == << "D","E","V" >>

FirstVersions == { << >>, V2020, VJustBefore, VPrefix, cutoverVersion, V2022, VDev }
OtherVersions == { V2020, V2022 }

\* Replies of client.ServerInfo: an error, or a list of servers.
ServerInfoReplies ==
    { [ err |-> TRUE, Servers |-> << >> ], [ err |-> FALSE, Servers |-> << >> ] }
    \cup { [ err |-> FALSE, Servers |-> << [ Version |-> v ] >> ] : v \in FirstVersions }
    \cup { [ err |-> FALSE, Servers |-> << [ Version |-> v ], [ Version |-> w ] >> ] :
             v \in FirstVersions, w \in OtherVersions }

\* ------------------------------------------------------------------------
\* State
\* ------------------------------------------------------------------------

VARIABLES
    legacyConfig,   \* package variable legacyConfig
    defaultConfig,  \* package variable defaultConfig
    globalJSON,     \* output mode of printMsg
    pc,             \* position of the handler: idle, syntax, alias, hostConfig,
                    \* parse, mint, client, info, gate, return, exited
    args,           \* ctx.Args()
    alias,          \* locals of generatePrometheusConfig
    hostConfig,
    u,
    now,
    jwt,
    token,
    info,
    err,            \* error returned by generatePrometheusConfig ("" is nil)
    stdout,         \* texts printed by the current invocation
    diagnostic,     \* message written for the user by a fatal exit ("" is none)
    exitStatus,     \* -1 while the handler runs; status it ended with otherwise
    failure,        \* step of the current invocation that failed ("" is none)
    calls,          \* external calls of the current invocation, in order
    printed,        \* documents handed to printMsg in this process, with inputs
    invocations     \* number of invocations started in this process

locals == << alias, hostConfig, u, now, jwt, token, info, err >>
vars == << legacyConfig, defaultConfig, globalJSON, pc, args, alias, hostConfig,
           u, now, jwt, token, info, err, stdout, diagnostic, exitStatus,
           failure, calls, printed, invocations >>

ZeroURL == [ Scheme |-> "", Host |-> "" ]
ZeroTime == [ M |-> 0, u |-> 0 ]
ZeroJWT == [ Method |-> "", Claims |-> [ ExpiresAt |-> ZeroTime, Subject |-> "", Issuer |-> "" ] ]
ZeroInfo == [ Servers |-> << >> ]

Init ==
    /\ legacyConfig = legacyConfigInit
    /\ defaultConfig = defaultConfigInit
    /\ globalJSON = FALSE
    /\ pc = "idle"
    /\ args = << >>
    /\ alias = ""
    /\ hostConfig = NilHost
    /\ u = ZeroURL
    /\ now = ZeroTime
    /\ jwt = ZeroJWT
    /\ token = ""
    /\ info = ZeroInfo
    /\ err = ""
    /\ stdout = << >>
    /\ diagnostic = ""
    /\ exitStatus = -1
    /\ failure = ""
    /\ calls = << >>
    /\ printed = << >>
    /\ invocations = 0

\* fatalIf(err, msg) with a non-nil err: the message is reported and the
\* process exits with status 1.
fatalIf(kind, msg) ==
    /\ pc' = "exited"
    /\ exitStatus' = 1
    /\ diagnostic' = msg
    /\ failure' = kind

\* ------------------------------------------------------------------------
\* Decisions of the handler
\* ------------------------------------------------------------------------

\* Variant of afterParse: the error of url.Parse is not looked at.
afterParseIgnored(parseErr) == "mint"

\* if err != nil { return err } after url.Parse: where the handler goes on.
afterParse(parseErr) == IF parseErr THEN "return" ELSE "mint"

\* Variant of afterMint: the error of jwt.SignedString is not looked at.
afterMintIgnored(signErr) == "client"

\* if err != nil { return err } after jwt.SignedString.
afterMint(signErr) == IF signErr THEN "return" ELSE "client"

\* Variant of selectLegacy: <= in place of <.
selectLegacyInclusive(inf) == ~StrLess(cutoverVersion, inf.Servers[1].Version)

\* info.Servers[0].Version < "2021-01-30T00-20-58Z"
selectLegacy(inf) == StrLess(inf.Servers[1].Version, cutoverVersion)

\* mainAdminPrometheusGenerate: nil is returned whether or not
\* generatePrometheusConfig returned an error, so the command ends with
\* status 0 and writes nothing more.
mainResult(e) == IF e # "" THEN 0 ELSE 0

\* ------------------------------------------------------------------------
\* Actions
\* ------------------------------------------------------------------------

\* The command is started: mainAdminPrometheusGenerate(ctx) is entered with
\* the globals set from the context (Before: setGlobalsFromContext).
Invoke ==
    /\ pc = "idle"
    /\ invocations < MaxInvocations
    /\ \E a \in ArgLists, j \in BOOLEAN :
         /\ args' = a
         /\ globalJSON' = j
    /\ invocations' = invocations + 1
    /\ pc' = "syntax"
    /\ alias' = ""
    /\ hostConfig' = NilHost
    /\ u' = ZeroURL
    /\ now' = ZeroTime
    /\ jwt' = ZeroJWT
    /\ token' = ""
    /\ info' = ZeroInfo
    /\ err' = ""
    /\ stdout' = << >>
    /\ diagnostic' = ""
    /\ exitStatus' = -1
    /\ failure' = ""
    /\ calls' = << >>
    /\ UNCHANGED << legacyConfig, defaultConfig, printed >>

\* checkAdminPrometheusSyntax: anything but one argument shows the help and
\* exits with status 1.
CheckSyntax ==
    /\ pc = "syntax"
    /\ IF Len(args) # 1
       THEN /\ pc' = "exited"
            /\ exitStatus' = 1
            /\ diagnostic' = "help: generate"
            /\ failure' = "usage"
       ELSE /\ pc' = "alias"
            /\ UNCHANGED << exitStatus, diagnostic, failure >>
    /\ UNCHANGED << legacyConfig, defaultConfig, globalJSON, args, locals,
                    stdout, calls, printed, invocations >>

\* alias := cleanAlias(args.Get(0)); an invalid alias is fatal.
ValidateAlias ==
    /\ pc = "alias"
    /\ alias' = cleanAlias(args[1])
    /\ IF ~isValidAlias(alias')
       THEN fatalIf("invalidAlias", "Invalid alias.")
       ELSE /\ pc' = "hostConfig"
            /\ UNCHANGED << exitStatus, diagnostic, failure >>
    /\ UNCHANGED << legacyConfig, defaultConfig, globalJSON, args, hostConfig, u,
                    now, jwt, token, info, err, stdout, calls, printed, invocations >>

\* hostConfig := mustGetHostConfig(alias); no such alias is fatal.
GetHostConfig ==
    /\ pc = "hostConfig"
    /\ hostConfig' = mustGetHostConfig(alias)
    /\ IF hostConfig'.nil
       THEN fatalIf("noAlias", "No such alias " \o alias \o " found.")
       ELSE /\ pc' = "parse"
            /\ UNCHANGED << exitStatus, diagnostic, failure >>
    /\ UNCHANGED << legacyConfig, defaultConfig, globalJSON, args, alias, u,
                    now, jwt, token, info, err, stdout, calls, printed, invocations >>

\* u, err := url.Parse(hostConfig.URL); the error is returned to the caller.
ParseURL ==
    /\ pc = "parse"
    /\ LET r == urlParse(hostConfig.URL) IN
         /\ calls' = Append(calls, "url.Parse")
         /\ u' = [ Scheme |-> r.Scheme, Host |-> r.Host ]
         /\ err' = IF r.err THEN "url.Parse: error" ELSE ""
         /\ failure' = IF r.err THEN "urlParse" ELSE failure
         /\ pc' = afterParse(r.err)
    /\ UNCHANGED << legacyConfig, defaultConfig, globalJSON, args, alias, hostConfig,
                    now, jwt, token, info, stdout, diagnostic, exitStatus,
                    printed, invocations >>

\* The token is built and signed with the secret key; whether the signing
\* primitive reports an error is its own affair and does not depend on the
\* key here: the handler passes the key on without looking at it.
MintCredential ==
    /\ pc = "mint"
    /\ \E t \in Clock, signErr \in BOOLEAN :
         /\ now' = t
         /\ jwt' = newJWT(t, hostConfig.AccessKey)
         /\ calls' = Append(calls, "jwt.SignedString")
         /\ token' = IF signErr THEN "" ELSE SignedString(jwt', hostConfig.SecretKey)
         /\ err' = IF signErr THEN "jwt.SignedString: error" ELSE ""
         /\ failure' = IF signErr THEN "sign" ELSE failure
         /\ pc' = afterMint(signErr)
    /\ UNCHANGED << legacyConfig, defaultConfig, globalJSON, args, alias, hostConfig,
                    u, info, stdout, diagnostic, exitStatus, printed, invocations >>

\* client, cerr := newAdminClient(alias); fatalIf(cerr, ...).
NewAdminClient ==
    /\ pc = "client"
    /\ calls' = Append(calls, "newAdminClient")
    /\ \E cerr \in BOOLEAN :
         IF cerr
         THEN fatalIf("client", "Unable to initialize admin connection.")
         ELSE /\ pc' = "info"
              /\ UNCHANGED << exitStatus, diagnostic, failure >>
    /\ UNCHANGED << legacyConfig, defaultConfig, globalJSON, args, locals,
                    stdout, printed, invocations >>

\* info, e := client.ServerInfo(globalContext); an error is fatal.
ServerInfo ==
    /\ pc = "info"
    /\ calls' = Append(calls, "ServerInfo")
    /\ \E r \in ServerInfoReplies :
         IF r.err
         THEN /\ fatalIf("serverInfo", "Failed to get server info.")
              /\ info' = info
         ELSE /\ info' = [ Servers |-> r.Servers ]
              /\ pc' = "gate"
              /\ UNCHANGED << exitStatus, diagnostic, failure >>
    /\ UNCHANGED << legacyConfig, defaultConfig, globalJSON, args, alias, hostConfig,
                    u, now, jwt, token, err, stdout, printed, invocations >>

\* The version gate, the filling of the selected package variable and
\* printMsg.  Indexing an empty server list panics (exit status 2).
FillAndPrint ==
    /\ pc = "gate"
    /\ IF Len(info.Servers) = 0
       THEN /\ pc' = "exited"
            /\ exitStatus' = 2
            /\ diagnostic' = "panic: runtime error: index out of range [0] with length 0"
            /\ failure' = "panic"
            /\ UNCHANGED << legacyConfig, defaultConfig, stdout, calls, printed >>
       ELSE /\ IF selectLegacy(info)
               THEN /\ legacyConfig' = fillConfig(legacyConfig, token, u)
                    /\ defaultConfig' = defaultConfig
                    /\ stdout' = Append(stdout, printMsg(legacyConfig', globalJSON))
                    /\ printed' = Append(printed,
                                     [ tmpl |-> "legacy", token |-> token, scheme |-> u.Scheme,
                                       host |-> u.Host, doc |-> legacyConfig' ])
               ELSE /\ defaultConfig' = fillConfig(defaultConfig, token, u)
                    /\ legacyConfig' = legacyConfig
                    /\ stdout' = Append(stdout, printMsg(defaultConfig', globalJSON))
                    /\ printed' = Append(printed,
                                     [ tmpl |-> "default", token |-> token, scheme |-> u.Scheme,
                                       host |-> u.Host, doc |-> defaultConfig' ])
            /\ calls' = Append(calls, "printMsg")
            /\ pc' = "return"
            /\ UNCHANGED << exitStatus, diagnostic, failure >>
    /\ UNCHANGED << globalJSON, args, locals, invocations >>

\* generatePrometheusConfig has returned; mainAdminPrometheusGenerate returns.
Return ==
    /\ pc = "return"
    /\ exitStatus' = mainResult(err)
    /\ pc' = "idle"
    /\ UNCHANGED << legacyConfig, defaultConfig, globalJSON, args, locals, stdout,
                    diagnostic, failure, calls, printed, invocations >>

Next ==
    \/ Invoke
    \/ CheckSyntax
    \/ ValidateAlias
    \/ GetHostConfig
    \/ ParseURL
    \/ MintCredential
    \/ NewAdminClient
    \/ ServerInfo
    \/ FillAndPrint
    \/ Return

Spec == Init /\ [][Next]_vars

\* ------------------------------------------------------------------------
\* Properties
\* ------------------------------------------------------------------------

LastPrinted == printed[Len(printed)]

\* The current invocation has printed its document.
Emitted == stdout # << >>

\* The value of the leaf at path p of a rendered text ("<absent>" if none).
LeafValue(text, p) ==
    IF \E k \in 1..Len(text) : text[k][1] = p
    THEN text[CHOOSE k \in 1..Len(text) : text[k][1] = p][2]
    ELSE "<absent>"

\* The metrics path shown by a rendered text, in either output mode.
ShownMetricsPath(text) ==
    IF globalJSON THEN LeafValue(text, "metricsPath")
    ELSE LeafValue(text, "scrape_configs[0].metrics_path")

\* Lexical order on strings, stated from its definition: v is below c when,
\* at the first position where they differ, v has ended or has the smaller byte.
LexBelow(v, c) ==
    \E i \in 1..Len(c) :
       /\ \A j \in 1..(i - 1) : j <= Len(v) /\ v[j] = c[j]
       /\ \/ i > Len(v)
          \/ i <= Len(v) /\ Byte(v[i]) < Byte(c[i])

\* C1: the emitted document carries the legacy metrics path exactly when the
\* version of the first server is lexically below 2021-01-30T00-20-58Z, and
\* the current path otherwise (the cutover itself included); the versions of
\* the other servers play no part.
C1_VersionGate ==
    Emitted =>
       LET v == info.Servers[1].Version
           want == IF LexBelow(v, cutoverVersion) THEN legacyMetricsPath
                   ELSE defaultMetricsPath
       IN /\ LastPrinted.doc.ScrapeConfigs[1].MetricsPath = want
          /\ ShownMetricsPath(stdout[1]) = want
          /\ v = cutoverVersion => want = defaultMetricsPath
          /\ v \in { V2020, VJustBefore, VPrefix, << >> } => want = legacyMetricsPath
          /\ v \in { V2022, VDev } => want = defaultMetricsPath

\* C1 witness: the first server reports exactly the cutover, a second server
\* reports an older version, and the document emitted has the current path.
C1_Witness ==
    /\ Emitted
    /\ Len(info.Servers) = 2
    /\ info.Servers[1].Version = cutoverVersion
    /\ info.Servers[2].Version = V2020
    /\ LastPrinted.doc.ScrapeConfigs[1].MetricsPath = defaultMetricsPath

\* C2: an invocation in which alias resolution, the version query or the
\* signing failed has ended with a non-zero exit status and a diagnostic.
C2_FailureIsReported ==
    (pc \in { "idle", "exited" }
       /\ failure \in { "invalidAlias", "noAlias", "serverInfo", "sign" })
    => (exitStatus > 0 /\ diagnostic # "")

\* C3: an invocation prints at most one document, none if any step failed,
\* and one only after every step before it was made and succeeded.
C3_NoDocumentOnFailure ==
    /\ Len(stdout) <= 1
    /\ Len(printed) <= invocations
    /\ failure # "" => ~Emitted
    /\ Emitted =>
         /\ calls = << "url.Parse", "jwt.SignedString", "newAdminClient",
                       "ServerInfo", "printMsg" >>
         /\ isValidAlias(alias)
         /\ ~hostConfig.nil
         /\ ~urlParse(hostConfig.URL).err
         /\ err = ""
         /\ Len(info.Servers) > 0

\* C3 witness: after an invocation that printed, a later invocation failed
\* at the server-info query and has printed nothing.
C3_Witness ==
    /\ failure = "serverInfo"
    /\ pc = "exited"
    /\ stdout = << >>
    /\ Len(printed) = 1
    /\ invocations = 2

C5_TemplatesPristine ==
    /\ legacyConfig = legacyConfigInit
    /\ defaultConfig = defaultConfigInit

\* C6: once the credential has been minted from a profile whose secret key
\* is empty, there is no token and no document.
C6_EmptySecretFails ==
    (~hostConfig.nil /\ hostConfig.SecretKey = ""
       /\ \E k \in 1..Len(calls) : calls[k] = "jwt.SignedString")
    => (token = "" /\ failure = "sign" /\ ~Emitted)

\* The time t plus 100 * 365 * 24 * 3600 = 3153600000 seconds, in limbs.
PlusHundredYears(t) ==
    [ M |-> t.M + 3153 + (IF t.u + 600000 >= 1000000 THEN 1 ELSE 0),
      u |-> IF t.u + 600000 >= 1000000 THEN t.u + 600000 - 1000000 ELSE t.u + 600000 ]

Minted == \E k \in 1..Len(calls) : calls[k] = "jwt.SignedString"

\* C7: the payload minted has the access key of the profile as subject,
\* prometheus as issuer and the time of minting plus 3153600000 seconds as
\* expiry; the bearer token of the emitted document is that credential.
C7_CredentialPayload ==
    Minted =>
       /\ jwt.Claims.Subject = hostConfig.AccessKey
       /\ jwt.Claims.Issuer = "prometheus"
       /\ jwt.Claims.ExpiresAt = PlusHundredYears(now)
       /\ (alias = "play" /\ now = [ M |-> 1793, u |-> 750000 ] /\ token # "") =>
             token = "{alg:HS512}.{exp:4947350000,iss:prometheus,sub:PLAYKEY}.HS512(playsecret)"
       /\ Emitted =>
             /\ token # ""
             /\ LastPrinted.doc.ScrapeConfigs[1].BearerToken = token
             /\ LeafValue(stdout[1], IF globalJSON THEN "bearerToken"
                                     ELSE "scrape_configs[0].bearer_token") = token

\* C7 witness: a document emitted whose token was minted at a time where the
\* addition of the validity carries.
C7_Witness ==
    /\ Emitted
    /\ now = [ M |-> 1793, u |-> 750000 ]
    /\ jwt.Claims.ExpiresAt = [ M |-> 4947, u |-> 350000 ]
    /\ jwt.Claims.Subject = "minioadmin"
    /\ LastPrinted.doc.ScrapeConfigs[1].BearerToken = token

TemplateOf(name) == IF name = "legacy" THEN legacyConfigInit ELSE defaultConfigInit

\* A document has the shape and the fixed fields of the template t.
SameFrame(d, t) ==
    /\ Len(d.ScrapeConfigs) = 1
    /\ Len(d.ScrapeConfigs[1].StaticConfigs) = 1
    /\ Len(d.ScrapeConfigs[1].StaticConfigs[1].Targets) = 1
    /\ d.ScrapeConfigs[1].JobName = t.ScrapeConfigs[1].JobName
    /\ d.ScrapeConfigs[1].MetricsPath = t.ScrapeConfigs[1].MetricsPath

\* C8: every document emitted has one scrape target with one target host,
\* the job name minio-job and the metrics path of its template, one of the
\* two constants; filling changes the token, the scheme and the host only.
C8_FrameOfFilling ==
    /\ \A k \in 1..Len(printed) :
          /\ SameFrame(printed[k].doc, TemplateOf(printed[k].tmpl))
          /\ printed[k].doc.ScrapeConfigs[1].JobName = "minio-job"
          /\ printed[k].doc.ScrapeConfigs[1].MetricsPath
                \in { "/minio/prometheus/metrics", "/minio/v2/metrics/cluster" }
    /\ SameFrame(legacyConfig, legacyConfigInit)
    /\ SameFrame(defaultConfig, defaultConfigInit)

\* C8 witness: both templates have been filled, the same one twice.
C8_Witness ==
    /\ Len(printed) = 3
    /\ printed[1].tmpl = "legacy"
    /\ printed[2].tmpl = "default"
    /\ printed[3].tmpl = "legacy"
    /\ printed[3].host # printed[1].host

StepOrder == << "url.Parse", "jwt.SignedString", "newAdminClient", "ServerInfo", "printMsg" >>

\* C9: the calls of an invocation are made in the order parse, mint, client,
\* query, print, each at most once; after a signing failure or a URL parse
\* failure the remote service has not been queried.
C9_StepOrder ==
    /\ Len(calls) <= Len(StepOrder)
    /\ \A k \in 1..Len(calls) : calls[k] = StepOrder[k]
    /\ failure \in { "sign", "urlParse" } =>
          \A k \in 1..Len(calls) : calls[k] # "ServerInfo"

\* C9 witness: an invocation ended by a signing failure, the query not made.
C9_Witness ==
    /\ failure = "sign"
    /\ pc = "idle"
    /\ calls = << "url.Parse", "jwt.SignedString" >>

SameInputs(a, b) ==
    /\ a.tmpl = b.tmpl
    /\ a.token = b.token
    /\ a.scheme = b.scheme
    /\ a.host = b.host

\* C10: two emissions with the same template, credential, scheme and host
\* are the same document whatever was emitted before or between them, and
\* the request fields of every emitted document are those of its own
\* invocation.
C10_AssembleIsPure ==
    /\ \A i, j \in 1..Len(printed) :
          SameInputs(printed[i], printed[j]) => printed[i].doc = printed[j].doc
    /\ \A k \in 1..Len(printed) :
          /\ printed[k].doc.ScrapeConfigs[1].BearerToken = printed[k].token
          /\ printed[k].doc.ScrapeConfigs[1].Scheme = printed[k].scheme
          /\ printed[k].doc.ScrapeConfigs[1].StaticConfigs[1].Targets = << printed[k].host >>

\* C10 witness: the first and the third emission have the same inputs, the
\* second filled the same template with another token, scheme and host.
C10_Witness ==
    /\ Len(printed) = 3
    /\ SameInputs(printed[1], printed[3])
    /\ printed[2].tmpl = printed[1].tmpl
    /\ printed[2].token # printed[1].token
    /\ printed[2].scheme # printed[1].scheme
    /\ printed[2].host # printed[1].host
    /\ printed[1].doc = printed[3].doc

====
